---- MODULE Spec2Model ----
\* Bakery: template resolution, composition/generation and change detection.
\* Strings that name directories below the templates directory are kept as
\* the relative path string the code joins to getTemplatesDir().
EXTENDS Integers, Sequences, FiniteSets, TLC

VARIABLES
    templatesFs,   \* template descriptors on disk: relative dir -> directory state
    trees,         \* template files on disk: relative dir -> files in readdir order
    call,          \* the last resolveTemplates call: [archetypeName, selectedAddons]
    templates,     \* the list returned by that call (<<>> before any call)
    config,        \* the ProjectConfig of the generateProject run
    pc,            \* position of the generateProject run
    outDir,        \* the output directory: relative path -> content
    allFiles,      \* the Map generateFromTemplates composes before writing
    written,       \* paths written into outDir from bundles and overlays
    dry,           \* the last generateProjectDryRun call and its DryRunResult
    projectManifest, \* the Manifest handed to detectChanges and to saveManifest
    changes,       \* the last detectChanges result
    built,         \* createManifest has built projectManifest from the project tree
    saved,         \* <<the Manifest saveManifest last wrote>>, <<>> before any save
    loaded,        \* the Result of the last loadManifest call
    hashDisk,      \* the files hashFile and hashFiles read: relative path -> bytes, readable
    hashed,        \* the last hashContent, hashFile or hashFiles call and its result
    setup,         \* a run of .bakery/setup.ts in a generated project
    remote         \* the remote template cache and the last call on it

vars == <<templatesFs, trees, call, templates, config, pc, outDir, allFiles, written, dry,
          projectManifest, changes, built, saved, loaded, hashDisk, hashed, setup, remote>>

hashVars == <<hashDisk, hashed>>

setupVars == <<setup>>

remoteVars == <<remote>>

otherVars == <<hashVars, setupVars, remoteVars>>

syncVars == <<projectManifest, changes, built, saved, loaded>>

resolverVars == <<call, templates>>

generatorVars == <<config, pc, outDir, allFiles, written, dry>>

\* ---------------------------------------------------------------- bounds
MaxDeps == 2          \* longest dependencies array of an archetype descriptor
MaxAddons == 2        \* longest selectedAddons list

\* ---------------------------------------------------------------- alphabets
\* Entries a dependencies array may hold, archetype ids and addon ids a caller
\* may pass.
DepStrings == {"addons/docker", "core", "nonexistent-dependency", "cli"}

ArchetypeIds == {"nonexistent-archetype", "cli", "api"}

AddonIds == {"docker", "ci", "unknown"}

\* ---------------------------------------------------------------- catalog
\* The state of one directory below the templates directory.
\*   kind "ok"         : template.json parses and validates to `manifest`
\*   kind "bare"       : the directory exists, it has no template.json
\*   kind "missing"    : the directory does not exist
\*   kind "unparsable" : template.json is not valid JSON
\*   kind "invalid"    : template.json is JSON that fails the schema
\* A validated descriptor. baseCommand: whether the optional baseCommand is
\* present; postProcess: <<>> when absent, else <<the postProcess object>>.
Manifest(name, deps, base, post) ==
    [name |-> name, dependencies |-> deps, baseCommand |-> base, postProcess |-> post]

OkDir(name, deps, base) == [kind |-> "ok", manifest |-> Manifest(name, deps, base, <<>>)]

NoManifest == Manifest("", <<>>, FALSE, <<>>)

BareDir == [kind |-> "bare", manifest |-> NoManifest]

MissingDir == [kind |-> "missing", manifest |-> NoManifest]

\* fs.existsSync(path.join(templatesDir, dir))
existsSync(fs, dir) == dir \in DOMAIN fs /\ fs[dir].kind # "missing"

UnparsableDir == [kind |-> "unparsable", manifest |-> NoManifest]

InvalidDir == [kind |-> "invalid", manifest |-> NoManifest]

\* fs.existsSync(path.join(templateDir, 'template.json'))
manifestExists(fs, dir) == existsSync(fs, dir) /\ fs[dir].kind # "bare"

\* loadTemplateManifest: <<manifest>> when template.json loads, <<>> for null.
\* JSON.parse and the schema's parse throw inside the try block; the catch
\* returns null.
loadTemplateManifest(fs, dir) ==
    IF ~manifestExists(fs, dir) THEN <<>>
    ELSE IF fs[dir].kind = "unparsable" THEN <<>>
    ELSE IF fs[dir].kind = "invalid" THEN <<>>
    ELSE <<fs[dir].manifest>>

LoadedTemplate(manifest, dir) == [manifest |-> manifest, path |-> dir, isPlugin |-> FALSE]

archetypeDirs == <<"cli", "library", "api", "full-stack", "convex-full-stack", "convex-saas">>

RECURSIVE discoverFromStopAtFailure(_, _, _)
\* A discovery that ends at the first entry whose descriptor does not load.
discoverFromStopAtFailure(fs, dirs, i) ==
    IF i > Len(dirs) THEN <<>>
    ELSE LET m == loadTemplateManifest(fs, dirs[i])
         IN  IF existsSync(fs, dirs[i]) /\ m # <<>>
             THEN <<LoadedTemplate(m[1], dirs[i])>> \o discoverFromStopAtFailure(fs, dirs, i + 1)
             ELSE <<>>

RECURSIVE discoverFrom(_, _, _)
\* The loop shared by discoverArchetypes and discoverAddons: entries whose
\* directory exists and whose descriptor loads, in entry order.
discoverFrom(fs, dirs, i) ==
    IF i > Len(dirs) THEN <<>>
    ELSE LET m == loadTemplateManifest(fs, dirs[i])
         IN  (IF existsSync(fs, dirs[i]) /\ m # <<>>
                 THEN <<LoadedTemplate(m[1], dirs[i])>> ELSE <<>>)
             \o discoverFrom(fs, dirs, i + 1)

discoverArchetypes(fs) == discoverFrom(fs, archetypeDirs, 1)

\* readdirSync(templates/addons): the entries of the addons directory, as paths
\* relative to the templates directory.
addonEntries == <<"addons/ci", "addons/docker">>

discoverAddons(fs) == discoverFrom(fs, addonEntries, 1)

\* The synthesized descriptor of a core directory without a loadable template.json.
SynthCoreManifest == Manifest("core", <<>>, FALSE, <<>>)

\* loadCoreTemplate: <<template>> or <<>> for null.
loadCoreTemplate(fs) ==
    IF ~existsSync(fs, "core") THEN <<>>
    ELSE LET m == loadTemplateManifest(fs, "core")
         IN  IF m = <<>> THEN <<LoadedTemplate(SynthCoreManifest, "core")>>
             ELSE <<LoadedTemplate(m[1], "core")>>

\* Array.prototype.find on manifest.name: <<first match>> or <<>>.
findByName(list, name) ==
    LET hits == SelectSeq(list, LAMBDA t : t.manifest.name = name)
    IN  IF hits = <<>> THEN <<>> ELSE <<hits[1]>>

RECURSIVE depsLoop(_, _, _, _)
\* for (const dep of archetype.manifest.dependencies): returns [templates, seen].
depsLoop(fs, deps, i, acc) ==
    IF i > Len(deps) THEN acc
    ELSE LET dep == deps[i]
             m   == loadTemplateManifest(fs, dep)
         IN  IF dep \in acc.seen THEN depsLoop(fs, deps, i + 1, acc)
             ELSE IF existsSync(fs, dep) /\ m # <<>>
                  THEN depsLoop(fs, deps, i + 1,
                         [templates |-> Append(acc.templates, LoadedTemplate(m[1], dep)),
                          seen |-> acc.seen \cup {dep}])
                  ELSE depsLoop(fs, deps, i + 1, acc)

RECURSIVE addonsLoopStopAtUnknown(_, _, _, _)
\* An addon loop that gives up at the first id that matches no addon.
addonsLoopStopAtUnknown(allAddons, selected, i, acc) ==
    IF i > Len(selected) THEN acc
    ELSE LET addon == findByName(allAddons, selected[i])
         IN  IF addon = <<>> THEN acc
             ELSE addonsLoopStopAtUnknown(allAddons, selected, i + 1, Append(acc, addon[1]))

RECURSIVE addonsLoop(_, _, _, _)
\* for (const addonName of selectedAddons): push the first addon of that name.
addonsLoop(allAddons, selected, i, acc) ==
    IF i > Len(selected) THEN acc
    ELSE LET addon == findByName(allAddons, selected[i])
         IN  addonsLoop(allAddons, selected, i + 1,
                        IF addon # <<>> THEN Append(acc, addon[1]) ELSE acc)

\* The list after the core and archetype blocks of resolveTemplates.
resolveArchetype(fs, archetypeName) ==
    LET core      == loadCoreTemplate(fs)
        start     == IF core # <<>> THEN [templates |-> core, seen |-> {"core"}]
                     ELSE [templates |-> <<>>, seen |-> {}]
        archetype == findByName(discoverArchetypes(fs), archetypeName)
    IN  IF archetype # <<>>
        THEN Append(depsLoop(fs, archetype[1].manifest.dependencies, 1, start).templates,
                    archetype[1])
        ELSE start.templates

resolveTemplates(fs, archetypeName, selectedAddons) ==
    addonsLoop(discoverAddons(fs), selectedAddons, 1, resolveArchetype(fs, archetypeName))

\* ---------------------------------------------------------------- inputs
RECURSIVE SeqsUpTo(_, _)
SeqsUpTo(S, n) ==
    IF n = 0 THEN {<<>>}
    ELSE LET shorter == SeqsUpTo(S, n - 1)
         IN  shorter \cup {Append(s, x) : s \in {t \in shorter : Len(t) = n - 1}, x \in S}

CoreStates == {OkDir("core", <<>>, FALSE), BareDir, MissingDir}

CliStates == {OkDir("cli", deps, FALSE) : deps \in SeqsUpTo(DepStrings, MaxDeps)}
             \cup {BareDir, MissingDir}

ApiStates == {OkDir("api", <<"core">>, FALSE), InvalidDir}

DockerStates == {OkDir("docker", <<>>, FALSE), BareDir, MissingDir}

CiStates == {OkDir("ci", <<>>, FALSE), UnparsableDir}

Catalogs ==
    {[d \in {"core", "cli", "api", "addons/docker", "addons/ci"} |->
        CASE d = "core" -> c
          [] d = "cli" -> a
          [] d = "api" -> b
          [] d = "addons/docker" -> k
          [] OTHER -> i] :
      c \in CoreStates, a \in CliStates, b \in ApiStates, k \in DockerStates, i \in CiStates}

NoCall == [archetypeName |-> "", selectedAddons |-> <<>>, done |-> FALSE]

\* ---------------------------------------------------------------- engine
\* A relative path is the sequence of its segments; a content is a sequence of
\* byte tokens. A template file [path, ejs, content]: `path` is the file's
\* relative path without a trailing .ejs, `ejs` tells whether the name ends in .ejs.
File(path, ejs, content) == [path |-> path, ejs |-> ejs, content |-> content]

TemplateJson == <<"template.json">>

\* toPascalCase on the project names the model uses.
toPascalCase(str) == CASE str = "my-app" -> "MyApp" [] OTHER -> str

createTemplateContext(cfg) ==
    [projectName |-> cfg.projectName,
     projectNamePascal |-> toPascalCase(cfg.projectName),
     archetype |-> cfg.archetype,
     addons |-> cfg.addons]

\* ejs.render on the template texts of the model: an output tag of a context
\* value is replaced by the value, any other text is kept.
renderTemplate(template, context) ==
    [i \in 1..Len(template) |->
        CASE template[i] = "<%= projectName %>" -> context.projectName
          [] template[i] = "<%= projectNamePascal %>" -> context.projectNamePascal
          [] OTHER -> template[i]]

\* fs.readFileSync(path, 'utf-8'): a byte that is not valid UTF-8 decodes to
\* the replacement character.
readUtf8(content) ==
    [i \in 1..Len(content) |-> IF content[i] = "0xFF" THEN "U+FFFD" ELSE content[i]]

IsUnderPrefix(path, prefix) ==
    Len(path) > Len(prefix) /\ SubSeq(path, 1, Len(prefix)) = prefix

\* A template text ejs.render throws on (it reads a name the context lacks).
BadTemplate == <<"<%= missing %>">>

\* processTemplateDirectory throws: some .ejs file below `prefix` does not render.
renderThrows(tree, prefix) ==
    \E i \in 1..Len(tree) :
        IsUnderPrefix(tree[i].path, prefix) /\ tree[i].ejs /\ tree[i].content = BadTemplate

\* The two global replace() calls on the output path, on the segment names of
\* the model: a token is replaced wherever it occurs in a name.
substituteSegment(seg, context) ==
    CASE seg = "{{projectName}}" -> context.projectName
      [] seg = "{{projectNamePascal}}" -> context.projectNamePascal
      [] seg = "{{projectName}}.ts" -> context.projectName \o ".ts"
      [] seg = "{{projectNamePascal}}.ts" -> context.projectNamePascal \o ".ts"
      [] OTHER -> seg

substitutePath(path, context) == [i \in 1..Len(path) |-> substituteSegment(path[i], context)]

\* A JavaScript Map as the sequence of its entries in insertion order.
MapHas(map, key) == \E i \in 1..Len(map) : map[i].path = key

MapGet(map, key) == map[CHOOSE i \in 1..Len(map) : map[i].path = key].content

\* A Map.set that keeps the value already stored under the key.
MapSetKeepFirst(map, key, value) ==
    IF MapHas(map, key) THEN map ELSE Append(map, [path |-> key, content |-> value])

MapSet(map, key, value) ==
    IF MapHas(map, key)
    THEN [i \in 1..Len(map) |-> IF map[i].path = key
                                  THEN [path |-> key, content |-> value] ELSE map[i]]
    ELSE Append(map, [path |-> key, content |-> value])

MapKeys(map) == {map[i].path : i \in 1..Len(map)}

IsUnder(path, prefix) == IsUnderPrefix(path, prefix)

RelativeTo(path, prefix) == SubSeq(path, Len(prefix) + 1, Len(path))

RECURSIVE processDir(_, _, _, _, _)
\* processDir over the files below `prefix` of a template directory, in
\* traversal order; keys are relative to `prefix`.
processDir(tree, prefix, context, i, results) ==
    IF i > Len(tree) THEN results
    ELSE LET entry == tree[i]
         IN  IF IsUnder(entry.path, prefix)
             THEN processDir(tree, prefix, context, i + 1,
                      MapSet(results,
                             substitutePath(RelativeTo(entry.path, prefix), context),
                             IF entry.ejs
                             THEN renderTemplate(readUtf8(entry.content), context)
                             ELSE readUtf8(entry.content)))
             ELSE processDir(tree, prefix, context, i + 1, results)

processTemplateDirectory(tree, prefix, context) == processDir(tree, prefix, context, 1, <<>>)

\* ---------------------------------------------------------------- generator
Overlays == <<"overlays">>

\* fs.existsSync(path.join(archetypePath, 'overlays'))
overlaysExist(fs, tr, archetype) ==
    /\ existsSync(fs, archetype)
    /\ \E i \in 1..Len(tr[archetype]) : IsUnder(tr[archetype][i].path, Overlays)

\* The tree of a resolved bundle.
TreeOf(tr, template) == tr[template.path]

\* Buffer.byteLength(content, 'utf-8'): every text of a content counts as one
\* byte, the replacement character as the three bytes of its encoding.
ByteLength(content) ==
    Len(content) + 2 * Cardinality({i \in 1..Len(content) : content[i] = "U+FFFD"})

RECURSIVE SumSizes(_, _)
SumSizes(files, i) == IF i > Len(files) THEN 0 ELSE files[i].size + SumSizes(files, i + 1)

RECURSIVE dryPushAll(_, _, _)
\* The inner loop of the dry run over one bundle: push every file but template.json.
dryPushAll(result, files, i) ==
    IF i > Len(files) THEN result
    ELSE dryPushAll(
           IF files[i].path # TemplateJson
           THEN [result EXCEPT
                   !.files = Append(@, [path |-> files[i].path,
                                        size |-> ByteLength(files[i].content)]),
                   !.totalSize = @ + ByteLength(files[i].content)]
           ELSE result,
           files, i + 1)

RECURSIVE dryTemplates(_, _, _, _, _)
dryTemplates(result, tr, list, context, i) ==
    IF i > Len(list) THEN result
    ELSE dryTemplates(
           dryPushAll(result, processTemplateDirectory(TreeOf(tr, list[i]), <<>>, context), 1),
           tr, list, context, i + 1)

FindIndex(files, path) ==
    IF \E i \in 1..Len(files) : files[i].path = path
    THEN CHOOSE i \in 1..Len(files) :
            files[i].path = path /\ \A j \in 1..(i - 1) : files[j].path # path
    ELSE 0

RECURSIVE dryOverlaysNoSubtract(_, _, _)
\* An overlay loop that replaces an entry without taking its size off the total.
dryOverlaysNoSubtract(result, files, i) ==
    IF i > Len(files) THEN result
    ELSE dryOverlaysNoSubtract(
           IF files[i].path # TemplateJson
           THEN LET existingIndex == FindIndex(result.files, files[i].path)
                    size == ByteLength(files[i].content)
                IN  IF existingIndex >= 1
                    THEN [result EXCEPT
                            !.totalSize = @ + size,
                            !.files[existingIndex] = [path |-> files[i].path, size |-> size]]
                    ELSE [result EXCEPT
                            !.files = Append(@, [path |-> files[i].path, size |-> size]),
                            !.totalSize = @ + size]
           ELSE result,
           files, i + 1)

RECURSIVE dryOverlays(_, _, _)
\* The overlay loop of the dry run: replace the first entry of the same path,
\* or push.
dryOverlays(result, files, i) ==
    IF i > Len(files) THEN result
    ELSE dryOverlays(
           IF files[i].path # TemplateJson
           THEN LET existingIndex == FindIndex(result.files, files[i].path)
                    size == ByteLength(files[i].content)
                IN  IF existingIndex >= 1
                    THEN [result EXCEPT
                            !.totalSize = @ - result.files[existingIndex].size + size,
                            !.files[existingIndex] = [path |-> files[i].path, size |-> size]]
                    ELSE [result EXCEPT
                            !.files = Append(@, [path |-> files[i].path, size |-> size]),
                            !.totalSize = @ + size]
           ELSE result,
           files, i + 1)

\* The names postProcess.addDeps / addDevDeps contribute to a dry run.
dryDeps(manifest, field) ==
    IF manifest # <<>> /\ manifest[1].baseCommand /\ manifest[1].postProcess # <<>>
    THEN manifest[1].postProcess[1][field] ELSE <<>>

\* The dry run throws: a resolved bundle or the overlays directory does not render.
dryThrows(fs, tr, cfg) ==
    \/ \E t \in {resolveTemplates(fs, cfg.archetype, cfg.addons)[i] :
                    i \in 1..Len(resolveTemplates(fs, cfg.archetype, cfg.addons))} :
          renderThrows(TreeOf(tr, t), <<>>)
    \/ overlaysExist(fs, tr, cfg.archetype) /\ renderThrows(tr[cfg.archetype], Overlays)

generateProjectDryRun(fs, tr, cfg) ==
    LET context   == createTemplateContext(cfg)
        manifest  == loadTemplateManifest(fs, cfg.archetype)
        start     == [files |-> <<>>, totalSize |-> 0,
                      commands |-> IF manifest # <<>> /\ manifest[1].baseCommand
                                   THEN <<"baseCommand">> ELSE <<>>,
                      dependencies |-> dryDeps(manifest, "addDeps"),
                      devDependencies |-> dryDeps(manifest, "addDevDeps")]
        bundles   == dryTemplates(start, tr, resolveTemplates(fs, cfg.archetype, cfg.addons),
                                  context, 1)
    IN  IF overlaysExist(fs, tr, cfg.archetype)
        THEN dryOverlays(bundles,
                         processTemplateDirectory(tr[cfg.archetype], Overlays, context), 1)
        ELSE bundles

RECURSIVE composeAll(_, _, _, _, _)
\* The loop of generateFromTemplates: allFiles.set for every rendered file but
\* template.json, bundle after bundle.
composeAll(all, tr, list, context, i) ==
    IF i > Len(list) THEN all
    ELSE LET files == processTemplateDirectory(TreeOf(tr, list[i]), <<>>, context)
             kept  == SelectSeq(files, LAMBDA f : f.path # TemplateJson)
             RECURSIVE setAll(_, _)
             setAll(m, k) == IF k > Len(kept) THEN m
                             ELSE setAll(MapSet(m, kept[k].path, kept[k].content), k + 1)
         IN  composeAll(setAll(all, 1), tr, list, context, i + 1)

\* fs.writeFileSync of every entry of a Map, in order, into a directory.
writeAll(dir, map) ==
    [p \in DOMAIN dir \cup MapKeys(map) |-> IF MapHas(map, p) THEN MapGet(map, p) ELSE dir[p]]

\* writeTemplates(templates, outputDir)
writeTemplates(dir, map) == writeAll(dir, map)

RECURSIVE applyTemplateLoop(_, _, _, _, _, _)
\* The loop of applyTemplateFiles: every bundle but the one named like the
\* archetype is rendered and written at once; returns [dir, written, threw],
\* threw when a bundle did not render, which ends the loop.
applyTemplateLoop(acc, tr, list, cfg, context, i) ==
    IF i > Len(list) THEN acc
    ELSE IF list[i].manifest.name = cfg.archetype
         THEN applyTemplateLoop(acc, tr, list, cfg, context, i + 1)
         ELSE IF renderThrows(TreeOf(tr, list[i]), <<>>) THEN [acc EXCEPT !.threw = TRUE]
         ELSE LET files == SelectSeq(processTemplateDirectory(TreeOf(tr, list[i]), <<>>, context),
                                     LAMBDA f : f.path # TemplateJson)
              IN  applyTemplateLoop([dir |-> writeAll(acc.dir, files),
                                     written |-> acc.written \cup MapKeys(files),
                                     threw |-> FALSE],
                                    tr, list, cfg, context, i + 1)

\* The loop of applyOverlays: fs.writeFileSync of every overlay file.
applyOverlays(dir, files) == writeAll(dir, files)

SetupJson == <<".bakery", "setup.json">>

PackageJson == <<"package.json">>

GitDir == <<".git">>

\* Removing a file or a directory with everything below it.
rmSync(dir, target) ==
    [p \in {q \in DOMAIN dir : q # target /\ ~IsUnder(q, target)} |-> dir[p]]

RECURSIVE removeAll(_, _, _)
removeAll(dir, remove, i) ==
    IF i > Len(remove) THEN dir ELSE removeAll(rmSync(dir, remove[i]), remove, i + 1)

\* runPostProcess: the remove list, then package.json rewritten when it exists.
runPostProcess(dir, postProcess) ==
    LET removed == removeAll(dir, postProcess.remove, 1)
    IN  IF PackageJson \in DOMAIN removed
        THEN [removed EXCEPT ![PackageJson] = @ \o <<"postProcess">>]
        ELSE removed

EmptyDir == [p \in {} |-> <<>>]

\* collectSetupTasks(config) throws: it iterates template.manifest.tasks of
\* every resolved bundle, and no descriptor the loader returns has tasks (the
\* schema of ArchetypeManifest does not declare them, nor does the descriptor
\* loadCoreTemplate makes up), so the loop throws on the first bundle.
collectSetupTasksThrows(fs, cfg) == resolveTemplates(fs, cfg.archetype, cfg.addons) # <<>>

\* initGitRepo(outputDir): `git init` unless .git exists; a failure is swallowed.
initGitRepo(dir, ok) ==
    IF ~(\E p \in DOMAIN dir : IsUnder(p, GitDir)) /\ ok
    THEN [p \in DOMAIN dir \cup {<<".git", "HEAD">>} |->
            IF p = <<".git", "HEAD">> THEN <<"ref">> ELSE dir[p]]
    ELSE dir

\* The files generateInlineProject writes, in the order it writes them.
InlineFiles(cfg) ==
    (<<"package.json">> :> <<"inline-package", cfg.projectName>>)
    @@ (<<"src", "cli.ts">> :> <<"inline-cli">>)
    @@ (<<"tsconfig.json">> :> <<"inline-tsconfig">>)
    @@ (<<"README.md">> :> <<"inline-readme", cfg.projectName>>)
    @@ (<<".gitignore">> :> <<"inline-gitignore">>)

\* generateInlineProject(context, config, outputDir): five files, then initGitRepo.
generateInlineProject(dir, cfg, ok) ==
    LET files == InlineFiles(cfg)
    IN  initGitRepo([p \in DOMAIN dir \cup DOMAIN files |->
                        IF p \in DOMAIN files THEN files[p] ELSE dir[p]], ok)

NoConfig == [projectName |-> "", archetype |-> "", addons |-> <<>>]

NoDryRun == [done |-> FALSE, config |-> NoConfig,
             result |-> [files |-> <<>>, totalSize |-> 0, commands |-> <<>>,
                         dependencies |-> <<>>, devDependencies |-> <<>>]]

GeneratorIdle ==
    /\ config = NoConfig
    /\ pc = "idle"
    /\ outDir = EmptyDir
    /\ allFiles = <<>>
    /\ written = {}
    /\ dry = NoDryRun

\* ---------------------------------------------------------------- manifest
\* hashContent: the hex SHA-256 digest of a content, on the contents the
\* project trees of the model hold.
hashContent(content) ==
    CASE content = <<>> -> "e3b0c44298fc1c149afbf4c8996fb92427ae41e4649b934ca495991b7852b855"
      [] content = <<"hello world">>
           -> "b94d27b9934d3e08a52e52d7da7dabfac484efe37a5380ee9088f7ace2efcde9"
      [] content = <<"content">>
           -> "ed7002b439e9ac845f22357d822bac1444730fbdb6016d3ec9432297b9ec9f73"
      [] OTHER -> "sha256-of-other-content"

\* hashFile of a file of the project tree.
hashFile(dir, path) == hashContent(dir[path])

ManifestEntry(hash, managed) == [hash |-> hash, managed |-> managed, injections |-> <<>>]

ManifestOf(files) ==
    [bakeryVersion |-> "0.4.0", archetype |-> "cli", addons |-> <<>>,
     generatedAt |-> "2024-01-01T00:00:00.000Z", files |-> files]

\* A ChangeRecord; an absent optional field is <<>>, a present one <<value>>.
ChangeRecord(path, type, oldHash, newHash, managed) ==
    [path |-> path, type |-> type, oldHash |-> oldHash, newHash |-> newHash,
     managed |-> managed]

\* A classification that reports a path of manifest.files as modified whenever
\* it is on disk, and drops the managed flag.
changeOfManifestPathNoCompare(dir, mf, path) ==
    LET entry == mf.files[path]
    IN  IF path \in DOMAIN dir
        THEN ChangeRecord(path, "modified", <<entry.hash>>, <<hashFile(dir, path)>>, <<>>)
        ELSE ChangeRecord(path, "removed", <<entry.hash>>, <<>>, <<>>)

\* The record of a path of manifest.files.
changeOfManifestPath(dir, mf, path) ==
    LET entry == mf.files[path]
    IN  IF path \in DOMAIN dir
        THEN LET newHash == hashFile(dir, path)
             IN  ChangeRecord(path, IF newHash # entry.hash THEN "modified" ELSE "unchanged",
                              <<entry.hash>>, <<newHash>>, <<entry.managed>>)
        ELSE ChangeRecord(path, "removed", <<entry.hash>>, <<>>, <<>>)

\* An added record that claims the file as managed.
changeOfAddedPathManaged(dir, path) ==
    ChangeRecord(path, "added", <<>>, <<hashFile(dir, path)>>, <<TRUE>>)

\* The record of a path on disk that manifest.files does not have.
changeOfAddedPath(dir, path) == ChangeRecord(path, "added", <<>>, <<hashFile(dir, path)>>, <<>>)

RECURSIVE changesOver(_, _, _, _)
\* Records for the paths of `order`, in that order: manifest paths are
\* classified against the disk, the others are disk paths and are added.
changesOver(dir, mf, order, i) ==
    IF i > Len(order) THEN <<>>
    ELSE <<IF order[i] \in DOMAIN mf.files THEN changeOfManifestPath(dir, mf, order[i])
                                           ELSE changeOfAddedPath(dir, order[i])>>
         \o changesOver(dir, mf, order, i + 1)

\* A detection that looks at the paths of manifest.files only.
detectChangesManifestOnly(dir, mf, listing) ==
    changesOver(dir, mf, SelectSeq(listing, LAMBDA p : p \in DOMAIN mf.files), 1)

\* detectChanges(projectRoot, manifest): first every path of manifest.files,
\* then every path found on disk only, each in listing order.
detectChanges(dir, mf, listing) ==
    changesOver(dir, mf, SelectSeq(listing, LAMBDA p : p \in DOMAIN mf.files), 1)
    \o changesOver(dir, mf,
                   SelectSeq(listing, LAMBDA p : p \in DOMAIN dir /\ p \notin DOMAIN mf.files), 1)

NoFiles == [p \in {} |-> ManifestEntry("", FALSE)]

NoChanges == [done |-> FALSE, records |-> <<>>]

\* The Result of loadManifest: ok with a value, or an error with a message.
NoLoad == [done |-> FALSE, ok |-> FALSE, value |-> ManifestOf(NoFiles), error |-> ""]

ManifestIdle ==
    /\ built = FALSE
    /\ saved = <<>>
    /\ loaded = NoLoad

SyncIdle ==
    /\ projectManifest = ManifestOf(NoFiles)
    /\ changes = NoChanges
    /\ ManifestIdle

\* No hashing call has been made and there is nothing to hash.
NoHash ==
    [op |-> "none", data |-> [kind |-> "none", text |-> <<>>, bytes |-> <<>>], paths |-> <<>>,
     ok |-> FALSE, value |-> "", map |-> <<>>, message |-> "", filepath |-> <<>>]

HashIdle ==
    /\ hashDisk = <<>>
    /\ hashed = NoHash

\* No run of the setup script: no setup.json, nothing started.
NoSetup ==
    [json |-> "missing", tasks |-> <<>>, exists |-> {}, pc |-> "idle", filtered |-> <<>>,
     next |-> 1, started |-> <<>>, statuses |-> <<>>]

SetupIdle == setup = NoSetup

\* An empty cache: not even the cache directory exists.
EmptyCache == [p \in {} |-> [templateJson |-> FALSE]]

NoRemoteCall == [op |-> "none", ok |-> FALSE, type |-> "", path |-> <<>>, fromCache |-> FALSE]

RemoteIdle == remote = [cache |-> EmptyCache, last |-> NoRemoteCall]

OtherIdle == HashIdle /\ SetupIdle /\ RemoteIdle

\* ---------------------------------------------------------------- resolver
\* The resolver alone: any catalog of descriptors, no generation in progress.
Init ==
    /\ templatesFs \in Catalogs
    /\ trees = [d \in DOMAIN templatesFs |-> <<>>]
    /\ call = NoCall
    /\ templates = <<>>
    /\ GeneratorIdle
    /\ SyncIdle
    /\ OtherIdle

ResolveTemplates(archetypeName, selectedAddons) ==
    /\ call' = [archetypeName |-> archetypeName, selectedAddons |-> selectedAddons,
                done |-> TRUE]
    /\ templates' = resolveTemplates(templatesFs, archetypeName, selectedAddons)
    /\ UNCHANGED <<templatesFs, trees, generatorVars, syncVars, otherVars>>

Next ==
    \E a \in ArchetypeIds, s \in SeqsUpTo(AddonIds, MaxAddons) : ResolveTemplates(a, s)

Spec == Init /\ [][Next]_vars

\* ---------------------------------------------------------------- generation
MaxConfigAddons == 1   \* longest addons list of a generated configuration

ProjectName == "my-app"

Configs ==
    {[projectName |-> ProjectName, archetype |-> a, addons |-> s] :
        a \in {"cli", "nonexistent-archetype"}, s \in SeqsUpTo({"docker"}, MaxConfigAddons)}

Descriptor == File(TemplateJson, FALSE, <<"descriptor">>)

CoreTrees ==
    {<<File(<<"x.txt">>, FALSE, <<"core-x">>)>>,
     <<File(<<"x.txt">>, FALSE, <<"core-x">>), File(<<"y.txt">>, TRUE, <<"core-y", "<%= projectName %>">>)>>,
     <<File(<<"y.txt">>, TRUE, <<"core-y", "<%= projectName %>">>),
       File(<<"src", "{{projectName}}">>, FALSE, <<"core-n", "core-n">>)>>,
     <<File(<<"logo.bin">>, FALSE, <<"0xFF">>),
       File(<<"src", "{{projectName}}.ts">>, FALSE, <<"core-n">>),
       File(<<"x.txt">>, FALSE, <<"core-x">>),
       File(<<"x.txt">>, TRUE, <<"core-x", "<%= projectNamePascal %>">>)>>}

CliTrees ==
    {<<File(<<"x.txt">>, FALSE, <<"cli-x", "cli-x">>)>>,
     <<File(<<"x.txt">>, FALSE, <<"cli-x", "cli-x">>),
       File(<<"overlays", "x.txt">>, FALSE, <<"overlay-x">>)>>,
     <<File(<<"overlays", "x.txt">>, FALSE, <<"overlay-x">>),
       File(<<"overlays", "w.txt">>, TRUE, <<"overlay-w", "<%= projectName %>">>)>>,
     <<File(<<"z.txt">>, TRUE, <<"cli-z", "<%= projectName %>">>)>>,
     <<File(<<"x.txt">>, FALSE, <<"cli-x", "cli-x">>),
       File(<<"overlays", "template.json">>, FALSE, <<"descriptor">>),
       File(<<"overlays", "x.txt">>, TRUE, <<"overlay-x", "<%= projectName %>">>),
       File(<<"src", "{{projectNamePascal}}">>, TRUE, <<"cli-p", "<%= projectName %>">>)>>,
     <<File(<<"overlays", ".bakery", "setup.json">>, FALSE, <<"overlay-setup">>),
       File(<<"x.txt">>, FALSE, <<"cli-x", "cli-x">>)>>}

DockerTrees ==
    {<<File(<<"x.txt">>, FALSE, <<"docker-x", "docker-x", "docker-x">>)>>,
     <<File(<<"Dockerfile">>, FALSE, <<"docker-d">>)>>,
     <<File(<<"y.txt">>, FALSE, <<"docker-y">>), File(<<"Dockerfile">>, FALSE, <<"docker-d">>)>>,
     <<File(<<"Dockerfile">>, TRUE, BadTemplate)>>}

PostProcess == [remove |-> <<<<"x.txt">>>>, addDeps |-> <<"zod">>, addDevDeps |-> <<>>]

CliManifests ==
    {Manifest("cli", <<>>, FALSE, <<>>),
     Manifest("cli", <<"addons/docker">>, FALSE, <<>>),
     Manifest("cli", <<>>, TRUE, <<>>),
     Manifest("cli", <<>>, TRUE, <<PostProcess>>)}

\* A directory with its descriptor and files.
DirChoices(manifests, treeChoices) ==
    {[state |-> [kind |-> "ok", manifest |-> m], tree |-> <<Descriptor>> \o t] :
        m \in manifests, t \in treeChoices}

NoDirectory == [state |-> MissingDir, tree |-> <<>>]

GenCatalogs ==
    {[d \in {"core", "cli", "api", "addons/docker", "addons/ci"} |->
        CASE d = "core" -> c
          [] d = "cli" -> a
          [] d = "addons/docker" -> k
          [] OTHER -> NoDirectory] :
      c \in DirChoices({Manifest("core", <<>>, FALSE, <<>>)}, CoreTrees) \cup {NoDirectory},
      a \in DirChoices(CliManifests, CliTrees),
      k \in DirChoices({Manifest("docker", <<>>, FALSE, <<>>)}, DockerTrees) \cup {NoDirectory}}

\* What the external generator of a baseCommand leaves in the output directory.
ExternalTrees ==
    {(PackageJson :> <<"ext-pkg">>) @@ (<<"x.txt">> :> <<"ext-x">>),
     (PackageJson :> <<"ext-pkg">>) @@ (<<".git", "HEAD">> :> <<"ext-head">>)}

InitGen ==
    /\ \E cat \in GenCatalogs :
          /\ templatesFs = [d \in DOMAIN cat |-> cat[d].state]
          /\ trees = [d \in DOMAIN cat |-> cat[d].tree]
    /\ call = NoCall
    /\ templates = <<>>
    /\ GeneratorIdle
    /\ SyncIdle
    /\ OtherIdle

\* A dry run that runs the base command of the archetype instead of listing it.
DryRunRunsCommand(cfg) ==
    /\ pc \in {"idle", "done", "failed", "setupFailed", "legacyDone"}
    /\ dry' = IF dryThrows(templatesFs, trees, cfg) THEN NoDryRun
               ELSE [done |-> TRUE, config |-> cfg,
                     result |-> generateProjectDryRun(templatesFs, trees, cfg)]
    /\ LET manifest == loadTemplateManifest(templatesFs, cfg.archetype)
       IN  outDir' = IF manifest # <<>> /\ manifest[1].baseCommand
                     THEN [p \in DOMAIN outDir \cup {PackageJson} |->
                             IF p = PackageJson THEN <<"ext-pkg">> ELSE outDir[p]]
                     ELSE outDir
    /\ UNCHANGED <<templatesFs, trees, resolverVars, syncVars, config, pc, allFiles, written, otherVars>>

\* generateProjectDryRun(config, outputDir)
DryRun(cfg) ==
    /\ pc \in {"idle", "done", "failed", "setupFailed", "legacyDone"}
    /\ dry' = IF dryThrows(templatesFs, trees, cfg) THEN NoDryRun
               ELSE [done |-> TRUE, config |-> cfg,
                     result |-> generateProjectDryRun(templatesFs, trees, cfg)]
    /\ UNCHANGED <<templatesFs, trees, resolverVars, syncVars, config, pc, outDir, allFiles,
                 written, otherVars>>

\* generateProject(config, outputDir) up to the choice of the generation path.
GenerateProject(cfg) ==
    /\ pc = "idle"
    /\ config' = cfg
    /\ LET manifest == loadTemplateManifest(templatesFs, cfg.archetype)
       IN  pc' = IF manifest # <<>> /\ manifest[1].baseCommand THEN "baseCommand" ELSE "compose"
    /\ UNCHANGED <<templatesFs, trees, resolverVars, syncVars, outDir, allFiles, written, dry, otherVars>>

\* generateFromTemplates: resolve and render every bundle into allFiles; a
\* bundle that does not render ends the run.
Compose ==
    /\ pc = "compose"
    /\ LET list == resolveTemplates(templatesFs, config.archetype, config.addons)
       IN  IF \E i \in 1..Len(list) : renderThrows(TreeOf(trees, list[i]), <<>>)
           THEN pc' = "failed" /\ UNCHANGED allFiles
           ELSE /\ allFiles' = composeAll(<<>>, trees, list, createTemplateContext(config), 1)
                /\ pc' = "write"
    /\ UNCHANGED <<templatesFs, trees, resolverVars, syncVars, config, outDir, written, dry, otherVars>>

\* generateFromTemplates: writeTemplates(allFiles, outputDir).
WriteTemplates ==
    /\ pc = "write"
    /\ outDir' = writeTemplates(outDir, allFiles)
    /\ written' = written \cup MapKeys(allFiles)
    /\ pc' = "setup"
    /\ UNCHANGED <<templatesFs, trees, resolverVars, syncVars, config, allFiles, dry, otherVars>>

\* A base command step that goes on to the setup config of a failed command
\* before it gives up.
RunBaseCommandThenSetup(status, ext) ==
    /\ pc = "baseCommand"
    /\ IF status # 0
       THEN /\ pc' = "failed"
            /\ outDir' = [p \in DOMAIN ext \cup {SetupJson} |->
                            IF p = SetupJson THEN <<"setup", config.archetype>> ELSE ext[p]]
       ELSE pc' = "postProcess" /\ outDir' = ext
    /\ UNCHANGED <<templatesFs, trees, resolverVars, syncVars, config, allFiles, written, dry, otherVars>>

\* generateProjectLegacy(config, outputDir): the template system when the
\* directory of the archetype exists, the inline project otherwise.
GenerateProjectLegacy(cfg, ok) ==
    /\ pc = "idle"
    /\ config' = cfg
    /\ IF existsSync(templatesFs, cfg.archetype)
       THEN LET manifest == loadTemplateManifest(templatesFs, cfg.archetype)
            IN  /\ pc' = IF manifest # <<>> /\ manifest[1].baseCommand
                          THEN "baseCommand" ELSE "compose"
                /\ UNCHANGED outDir
       ELSE /\ pc' = "legacyDone"
            /\ outDir' = generateInlineProject(outDir, cfg, ok)
    /\ UNCHANGED <<templatesFs, trees, resolverVars, syncVars, allFiles, written, dry, otherVars>>

\* spawnSync of the base command: the external generator leaves `ext` in the
\* output directory and exits with `status`; a non-zero status throws, and
\* nothing the command wrote before it failed is removed.
RunBaseCommand(status, ext) ==
    /\ pc = "baseCommand"
    /\ outDir' = ext
    /\ pc' = IF status # 0 THEN "failed" ELSE "postProcess"
    /\ UNCHANGED <<templatesFs, trees, resolverVars, syncVars, config, allFiles, written, dry, otherVars>>

\* if (manifest.postProcess) runPostProcess(outputDir, manifest.postProcess)
RunPostProcess ==
    /\ pc = "postProcess"
    /\ LET manifest == loadTemplateManifest(templatesFs, config.archetype)[1]
       IN  outDir' = IF manifest.postProcess # <<>>
                     THEN runPostProcess(outDir, manifest.postProcess[1]) ELSE outDir
    /\ pc' = "templates"
    /\ UNCHANGED <<templatesFs, trees, resolverVars, syncVars, config, allFiles, written, dry, otherVars>>

\* applyTemplateFiles(config, outputDir, context)
ApplyTemplateFiles ==
    /\ pc = "templates"
    /\ LET after == applyTemplateLoop([dir |-> outDir, written |-> written, threw |-> FALSE],
                        trees, resolveTemplates(templatesFs, config.archetype, config.addons),
                        config, createTemplateContext(config), 1)
       IN  /\ outDir' = after.dir /\ written' = after.written
           /\ pc' = IF after.threw THEN "failed" ELSE "overlays"
    /\ UNCHANGED <<templatesFs, trees, resolverVars, syncVars, config, allFiles, dry, otherVars>>

\* applyOverlays(config, outputDir, context)
ApplyOverlays ==
    /\ pc = "overlays"
    /\ IF ~overlaysExist(templatesFs, trees, config.archetype)
       THEN pc' = "setup" /\ UNCHANGED <<outDir, written>>
       ELSE IF renderThrows(trees[config.archetype], Overlays)
       THEN pc' = "failed" /\ UNCHANGED <<outDir, written>>
       ELSE LET files == SelectSeq(processTemplateDirectory(trees[config.archetype], Overlays,
                                                            createTemplateContext(config)),
                                   LAMBDA f : f.path # TemplateJson)
            IN  /\ outDir' = applyOverlays(outDir, files)
                /\ written' = written \cup MapKeys(files)
                /\ pc' = "setup"
    /\ UNCHANGED <<templatesFs, trees, resolverVars, syncVars, config, allFiles, dry, otherVars>>

\* writeSetupConfig(config, outputDir): collectSetupTasks, then
\* .bakery/setup.json; a throw of collectSetupTasks ends the run before the write.
WriteSetupConfig ==
    /\ pc = "setup"
    /\ IF collectSetupTasksThrows(templatesFs, config)
       THEN pc' = "setupFailed" /\ UNCHANGED outDir
       ELSE /\ outDir' = [p \in DOMAIN outDir \cup {SetupJson} |->
                            IF p = SetupJson THEN <<"setup", config.archetype>>
                                             ELSE outDir[p]]
            /\ pc' = "git"
    /\ UNCHANGED <<templatesFs, trees, resolverVars, syncVars, config, allFiles, written, dry, otherVars>>

\* initGitRepo(outputDir): `git init` unless .git exists; a failure is swallowed.
InitGitRepo(ok) ==
    /\ pc = "git"
    /\ outDir' = initGitRepo(outDir, ok)
    /\ pc' = "done"
    /\ UNCHANGED <<templatesFs, trees, resolverVars, syncVars, config, allFiles, written, dry, otherVars>>

NextGen ==
    \/ \E cfg \in Configs : DryRun(cfg)
    \/ \E cfg \in Configs : GenerateProject(cfg)
    \/ Compose
    \/ WriteTemplates
    \/ \E status \in {0, 1}, ext \in ExternalTrees \cup {EmptyDir} : RunBaseCommand(status, ext)
    \/ \E cfg \in Configs, ok \in BOOLEAN : GenerateProjectLegacy(cfg, ok)
    \/ RunPostProcess
    \/ ApplyTemplateFiles
    \/ ApplyOverlays
    \/ WriteSetupConfig
    \/ \E ok \in BOOLEAN : InitGitRepo(ok)

SpecGen == InitGen /\ [][NextGen]_vars

\* ---------------------------------------------------------------- change detection
MaxSyncPaths == 4      \* number of distinct paths in a project tree or manifest

SyncPathList ==
    <<<<"biome.json">>, <<"src", "index.ts">>, <<"README.md">>, <<"src", "utils", "helper.ts">>,
      <<"Makefile">>>>

SyncPaths == {SyncPathList[i] : i \in 1..MaxSyncPaths}

SyncContents == {<<"content">>, <<"hello world">>}

\* Hashes a manifest may record: the digest of a content the tree can hold,
\* and one that matches no content.
SyncHashes == {hashContent(<<"content">>), "old-hash"}

ProjectTrees == UNION {[S -> SyncContents] : S \in SUBSET SyncPaths}

ManifestFiles ==
    UNION {[S -> {ManifestEntry(h, m) : h \in SyncHashes, m \in BOOLEAN}] :
             S \in SUBSET SyncPaths}

\* Any project tree and any manifest; no generation in progress.
InitSync ==
    /\ templatesFs = [d \in {"core"} |-> BareDir]
    /\ trees = [d \in {"core"} |-> <<>>]
    /\ call = NoCall
    /\ templates = <<>>
    /\ config = NoConfig
    /\ pc = "done"
    /\ outDir \in ProjectTrees
    /\ allFiles = <<>>
    /\ written = {}
    /\ dry = NoDryRun
    /\ \E files \in ManifestFiles : projectManifest = ManifestOf(files)
    /\ changes = NoChanges
    /\ ManifestIdle
    /\ OtherIdle

\* detectChanges(projectRoot, manifest)
DetectChanges ==
    /\ pc = "done"
    /\ changes' = [done |-> TRUE, records |-> detectChanges(outDir, projectManifest, SyncPathList)]
    /\ UNCHANGED <<templatesFs, trees, resolverVars, generatorVars, projectManifest, built,
                 saved, loaded, otherVars>>

NextSync == DetectChanges

SpecSync == InitSync /\ [][NextSync]_vars

\* ---------------------------------------------------------------- manifest file
\* getManifestPath(projectRoot), relative to the project root.
ManifestJson == <<".bakery", "manifest.json">>

ExcludedDirs == {".git", "node_modules", ".bakery"}

\* A walk that skips version control and the dependency cache only.
isExcludedNoBakery(path) == \E i \in 1..(Len(path) - 1) : path[i] \in {".git", "node_modules"}

\* The walk of createManifest does not descend into a directory of ExcludedDirs.
isExcluded(path) == \E i \in 1..(Len(path) - 1) : path[i] \in ExcludedDirs

ManagedFiles ==
    {"biome.json", "tsconfig.json", "lefthook.yml", "Makefile", ".editorconfig", "knip.json",
     "commitlint.config.js", ".gitignore", "AGENTS.md", "LICENSE"}

ManagedDirs == {".github"}

\* isManaged(relativePath): a file of the allow-list, or a path in a managed directory.
isManaged(path) == (Len(path) = 1 /\ path[1] \in ManagedFiles) \/ path[1] \in ManagedDirs

\* createManifest(projectRoot, {bakeryVersion, archetype, addons}) at time `now`.
createManifest(dir, meta, now) ==
    [bakeryVersion |-> meta.bakeryVersion, archetype |-> meta.archetype, addons |-> meta.addons,
     generatedAt |-> now,
     files |-> [p \in {q \in DOMAIN dir : ~isExcluded(q)} |->
                  ManifestEntry(hashFile(dir, p), isManaged(p))]]

\* The files a project tree of the manifest specification may hold, in the
\* order a walk lists them.
ManifestTreePaths ==
    <<<<"biome.json">>, <<"src", "index.ts">>, <<".git", "config">>,
      <<"node_modules", "package.json">>, <<".bakery", "setup.json">>,
      <<".github", "workflows", "ci.yml">>, <<"package.json">>>>

\* Every relative path a manifest of the model may record, in listing order.
KnownPaths == SyncPathList \o ManifestTreePaths

RECURSIVE JoinPath(_, _)
\* The relative path as the string that keys manifest.files.
JoinPath(path, i) == IF i >= Len(path) THEN path[i] ELSE path[i] \o "/" \o JoinPath(path, i + 1)

BoolText(b) == IF b THEN "true" ELSE "false"

\* The JSON text of one entry of files, as its sequence of tokens.
EntryTokens(path, entry) ==
    <<JoinPath(path, 1), "{", "hash", entry.hash, "managed", BoolText(entry.managed),
      "injections", "[", "]", "}">>

RECURSIVE FilesTokens(_, _, _)
FilesTokens(files, order, i) ==
    IF i > Len(order) THEN <<>>
    ELSE (IF order[i] \in DOMAIN files /\ \A j \in 1..(i - 1) : order[j] # order[i]
             THEN EntryTokens(order[i], files[order[i]]) ELSE <<>>)
         \o FilesTokens(files, order, i + 1)

\* JSON.stringify(manifest, null, 2) as a sequence of tokens.
stringify(m) ==
    <<"{", "bakeryVersion", m.bakeryVersion, "archetype", m.archetype, "addons", "[">>
    \o m.addons
    \o <<"]", "generatedAt", m.generatedAt, "files", "{">>
    \o FilesTokens(m.files, KnownPaths, 1)
    \o <<"}", "}">>

\* saveManifest(projectRoot, manifest): .bakery/manifest.json holds the JSON
\* text and a trailing newline.
saveManifest(dir, m) ==
    [p \in DOMAIN dir \cup {ManifestJson} |->
        IF p = ManifestJson THEN stringify(m) \o <<"\n">> ELSE dir[p]]

\* JSON.parse ignores the whitespace after the value.
trim(content) ==
    IF content # <<>> /\ content[Len(content)] = "\n"
    THEN SubSeq(content, 1, Len(content) - 1) ELSE content

Count(content, tokens) == Cardinality({i \in DOMAIN content : content[i] \in tokens})

\* JSON.parse does not throw: an object whose brackets pair up.
jsonParses(content) ==
    LET t == trim(content)
    IN  /\ Len(t) >= 2
        /\ t[1] = "{" /\ t[Len(t)] = "}"
        /\ Count(t, {"{", "["}) = Count(t, {"}", "]"})

\* The first index from `from` on that holds `token`, 0 when there is none.
IndexOf(t, token, from) ==
    IF \E i \in from..Len(t) : t[i] = token
    THEN CHOOSE i \in from..Len(t) : t[i] = token /\ \A j \in from..(i - 1) : t[j] # token
    ELSE 0

IsKnownKey(key) == \E i \in DOMAIN KnownPaths : JoinPath(KnownPaths[i], 1) = key

PathOfKey(key) ==
    KnownPaths[CHOOSE i \in DOMAIN KnownPaths : JoinPath(KnownPaths[i], 1) = key]

\* An entry read back with the managed flag left at its default.
entryOfUnmanaged(hash, managedText) == ManifestEntry(hash, FALSE)

\* The ManifestEntry of a parsed {hash, managed, injections} object.
entryOf(hash, managedText) == ManifestEntry(hash, managedText = "true")

Ok(value) == [ok |-> TRUE, value |-> value, error |-> ""]

Err(message) == [ok |-> FALSE, value |-> ManifestOf(NoFiles), error |-> message]

RECURSIVE parseFiles(_, _, _)
\* The files object from token i on: [ok, files], ok when every entry has the
\* shape of a ManifestEntry and the object closes the document.
parseFiles(t, i, acc) ==
    IF i > Len(t) THEN [ok |-> FALSE, files |-> acc]
    ELSE IF t[i] = "}" THEN [ok |-> i = Len(t) - 1, files |-> acc]
    ELSE IF /\ i + 9 <= Len(t)
            /\ IsKnownKey(t[i])
            /\ t[i + 1] = "{" /\ t[i + 2] = "hash" /\ t[i + 4] = "managed"
            /\ t[i + 5] \in {"true", "false"}
            /\ t[i + 6] = "injections" /\ t[i + 7] = "[" /\ t[i + 8] = "]" /\ t[i + 9] = "}"
         THEN parseFiles(t, i + 10, (PathOfKey(t[i]) :> entryOf(t[i + 3], t[i + 5])) @@ acc)
         ELSE [ok |-> FALSE, files |-> acc]

\* The schema validation of the parsed document.
parseManifest(t) ==
    LET k == IndexOf(t, "]", 8)
    IN  IF /\ Len(t) >= 14
           /\ t[2] = "bakeryVersion" /\ t[4] = "archetype" /\ t[6] = "addons" /\ t[7] = "["
           /\ k > 0 /\ Len(t) >= k + 5
           /\ t[k + 1] = "generatedAt" /\ t[k + 3] = "files" /\ t[k + 4] = "{"
        THEN LET parsed == parseFiles(t, k + 5, NoFiles)
             IN  IF parsed.ok
                 THEN Ok([bakeryVersion |-> t[3], archetype |-> t[5],
                          addons |-> SubSeq(t, 8, k - 1), generatedAt |-> t[k + 2],
                          files |-> parsed.files])
                 ELSE Err("Invalid manifest")
        ELSE Err("Invalid manifest")

\* A load that answers a missing manifest file with an empty manifest.
loadManifestEmptyFallback(dir) ==
    IF ManifestJson \notin DOMAIN dir THEN Ok(ManifestOf(NoFiles))
    ELSE IF ~jsonParses(dir[ManifestJson]) THEN Err("Failed to parse manifest")
    ELSE parseManifest(trim(dir[ManifestJson]))

\* loadManifest(projectRoot): Result<Manifest, Error>
loadManifest(dir) ==
    IF ManifestJson \notin DOMAIN dir THEN Err("Manifest not found")
    ELSE IF ~jsonParses(dir[ManifestJson]) THEN Err("Failed to parse manifest")
    ELSE parseManifest(trim(dir[ManifestJson]))

\* ---------------------------------------------------------------- manifest specification
Metas ==
    {[bakeryVersion |-> "0.4.0", archetype |-> "cli", addons |-> a] :
        a \in {<<>>, <<"docker", "ci">>}}

Timestamps == {"2024-01-01T00:00:00.000Z", "2024-06-01T00:00:00.000Z"}

\* What .bakery/manifest.json may hold before any save: text that is not JSON,
\* an empty file, JSON of another shape, and a manifest written by hand.
UnparsableText == <<"{ invalid json }">>

OtherShapeText == <<"{", "invalid", "data", "}">>

HandWritten ==
    [bakeryVersion |-> "0.4.0", archetype |-> "cli", addons |-> <<"docker", "ci">>,
     generatedAt |-> "2024-01-01T00:00:00.000Z",
     files |-> (<<"README.md">> :> ManifestEntry("abc123", FALSE))
               @@ (<<"biome.json">> :> ManifestEntry("def456", TRUE))]

ManifestTexts == {UnparsableText, <<>>, OtherShapeText, stringify(HandWritten)}

ManifestTrees ==
    UNION {[S -> SyncContents] : S \in SUBSET {ManifestTreePaths[i] : i \in DOMAIN ManifestTreePaths}}

\* Any project tree, with or without a manifest file; no generation in progress.
InitManifest ==
    /\ templatesFs = [d \in {"core"} |-> BareDir]
    /\ trees = [d \in {"core"} |-> <<>>]
    /\ call = NoCall
    /\ templates = <<>>
    /\ config = NoConfig
    /\ pc = "done"
    /\ \E tree \in ManifestTrees :
          \/ outDir = tree
          \/ \E text \in ManifestTexts : outDir = (ManifestJson :> text) @@ tree
    /\ allFiles = <<>>
    /\ written = {}
    /\ dry = NoDryRun
    /\ SyncIdle
    /\ OtherIdle

\* createManifest(projectRoot, meta)
CreateManifest(meta, now) ==
    /\ pc = "done"
    /\ projectManifest' = createManifest(outDir, meta, now)
    /\ built' = TRUE
    /\ UNCHANGED <<templatesFs, trees, resolverVars, generatorVars, changes, saved, loaded, otherVars>>

\* saveManifest(projectRoot, manifest)
SaveManifest ==
    /\ pc = "done"
    /\ outDir' = saveManifest(outDir, projectManifest)
    /\ saved' = <<projectManifest>>
    /\ loaded' = NoLoad
    /\ UNCHANGED <<templatesFs, trees, resolverVars, config, pc, allFiles, written, dry,
                 projectManifest, changes, built, otherVars>>

\* loadManifest(projectRoot)
LoadManifest ==
    /\ pc = "done"
    /\ loaded' = [done |-> TRUE] @@ loadManifest(outDir)
    /\ UNCHANGED <<templatesFs, trees, resolverVars, generatorVars, projectManifest, changes,
                 built, saved, otherVars>>

NextManifest ==
    \/ \E meta \in Metas, now \in Timestamps : CreateManifest(meta, now)
    \/ SaveManifest
    \/ LoadManifest

SpecManifest == InitManifest /\ [][NextManifest]_vars

\* ---------------------------------------------------------------- hashing
MaxHashPaths == 2      \* longest list of relative paths handed to hashFiles

RECURSIVE Flatten(_)
Flatten(seqs) == IF seqs = <<>> THEN <<>> ELSE Head(seqs) \o Flatten(Tail(seqs))

\* The characters of the strings of the model, as UTF-8 bytes.
utf8OfChar(c) ==
    CASE c = "h" -> <<104>>
      [] c = "i" -> <<105>>
      [] c = "U+00E9" -> <<195, 169>>

\* The bytes hash.update(string) digests: the UTF-8 encoding of the string.
utf8Encode(text) == Flatten([i \in 1..Len(text) |-> utf8OfChar(text[i])])

\* The hex SHA-256 digest of a sequence of bytes, on the byte contents of the model.
sha256Hex(bytes) ==
    CASE bytes = <<>> -> "e3b0c44298fc1c149afbf4c8996fb92427ae41e4649b934ca495991b7852b855"
      [] bytes = <<104, 105>>
           -> "8f434346648f6b96df89dda901c5176b10a6d83961dd3c1ac88b59b2dc327aa4"
      [] bytes = <<195, 169>>
           -> "4a99557e4033c3539de2eb65472017cad5f9557f7a0625a09f1c3f6e2ba69c4c"
      [] bytes = <<233>>
           -> "de2e331d891ae267a7009cb45b4e8830f170e0c937288ea2731a1941c7a53b0d"
      [] bytes = <<0, 1, 2, 255>>
           -> "3d1f57c984978ef98a18378c8166c1cb8ede02c03eeb6aee7e2f121dfeee3e56"
      [] OTHER -> "sha256-of-other-bytes"

\* The argument of hashContent: a string or a Buffer.
StringData(text) == [kind |-> "string", text |-> text, bytes |-> <<>>]

BufferData(bytes) == [kind |-> "buffer", text |-> <<>>, bytes |-> bytes]

\* hashContent(content: string | Buffer)
hashContentOf(data) ==
    sha256Hex(IF data.kind = "string" THEN utf8Encode(data.text) ELSE data.bytes)

\* The Result of hashFile and hashFiles: ok with a digest or a map, or an
\* error with a message and the path of the file.
HashOk(value, map) ==
    [ok |-> TRUE, value |-> value, map |-> map, message |-> "", filepath |-> <<>>]

HashErr(message, filepath) ==
    [ok |-> FALSE, value |-> "", map |-> <<>>, message |-> message, filepath |-> filepath]

\* hashFile(filePath): the Result of hashing the bytes of the file.
hashFileResult(disk, path) ==
    IF path \notin DOMAIN disk THEN HashErr("File not found", path)
    ELSE IF ~disk[path].readable THEN HashErr("Failed to read file", path)
    ELSE HashOk(hashContentOf(BufferData(disk[path].bytes)), <<>>)

RECURSIVE hashFilesFromSkipFailed(_, _, _, _)
\* A hashFiles that leaves out the files it cannot hash.
hashFilesFromSkipFailed(disk, paths, i, acc) ==
    IF i > Len(paths) THEN HashOk("", acc)
    ELSE LET result == hashFileResult(disk, paths[i])
         IN  hashFilesFromSkipFailed(disk, paths, i + 1,
                 IF result.ok THEN MapSet(acc, paths[i], result.value) ELSE acc)

RECURSIVE hashFilesFrom(_, _, _, _)
\* hashFiles from the i-th relative path on: the first file that fails is the
\* error of the whole call.
hashFilesFrom(disk, paths, i, acc) ==
    IF i > Len(paths) THEN HashOk("", acc)
    ELSE LET result == hashFileResult(disk, paths[i])
         IN  IF ~result.ok THEN result
             ELSE hashFilesFrom(disk, paths, i + 1, MapSet(acc, paths[i], result.value))

\* hashFiles(basePath, relativePaths)
hashFiles(disk, paths) == hashFilesFrom(disk, paths, 1, <<>>)

\* ---------------------------------------------------------------- hashing specification
HashPaths == {<<"file1.txt">>, <<"subdir", "file.txt">>, <<"binary.bin">>}

HashBuffers == {<<>>, <<104, 105>>, <<195, 169>>, <<0, 1, 2, 255>>}

HashTexts == {<<>>, <<"h", "i">>, <<"U+00E9">>}

HashFileStates == {[bytes |-> b, readable |-> r] : b \in HashBuffers, r \in BOOLEAN}

HashDisks == UNION {[S -> HashFileStates] : S \in SUBSET HashPaths}

\* Any set of files, readable or not; no generation in progress.
InitHash ==
    /\ templatesFs = [d \in {"core"} |-> BareDir]
    /\ trees = [d \in {"core"} |-> <<>>]
    /\ call = NoCall
    /\ templates = <<>>
    /\ config = NoConfig
    /\ pc = "done"
    /\ outDir = EmptyDir
    /\ allFiles = <<>>
    /\ written = {}
    /\ dry = NoDryRun
    /\ SyncIdle
    /\ hashDisk \in HashDisks
    /\ hashed = NoHash
    /\ SetupIdle
    /\ RemoteIdle

\* hashContent(content)
HashContent(data) ==
    /\ hashed' = [NoHash EXCEPT !.op = "hashContent", !.data = data, !.ok = TRUE,
                                 !.value = hashContentOf(data)]
    /\ UNCHANGED <<templatesFs, trees, resolverVars, generatorVars, syncVars, hashDisk, setupVars,
                 remoteVars>>

\* hashFile(filePath)
HashFile(path) ==
    /\ hashed' = [op |-> "hashFile", data |-> NoHash.data, paths |-> <<path>>]
                    @@ hashFileResult(hashDisk, path)
    /\ UNCHANGED <<templatesFs, trees, resolverVars, generatorVars, syncVars, hashDisk, setupVars,
                 remoteVars>>

\* hashFiles(basePath, relativePaths)
HashFiles(paths) ==
    /\ hashed' = [op |-> "hashFiles", data |-> NoHash.data, paths |-> paths]
                    @@ hashFiles(hashDisk, paths)
    /\ UNCHANGED <<templatesFs, trees, resolverVars, generatorVars, syncVars, hashDisk, setupVars,
                 remoteVars>>

NextHash ==
    \/ \E data \in {StringData(t) : t \in HashTexts} \cup {BufferData(b) : b \in HashBuffers} :
          HashContent(data)
    \/ \E path \in HashPaths : HashFile(path)
    \/ \E paths \in SeqsUpTo(HashPaths, MaxHashPaths) : HashFiles(paths)

SpecHash == InitHash /\ [][NextHash]_vars

\* ---------------------------------------------------------------- setup runner
MaxTasks == 3          \* most tasks in .bakery/setup.json

\* shouldRunTask(task), with the entries that exist in the project root.
shouldRunTask(task, exists) ==
    CASE task.condition = "always" -> TRUE
      [] task.condition = "if-no-git" -> ".git" \notin exists
      [] task.condition = "if-convex" -> "convex" \in exists
      [] task.condition = "if-docker" -> "Dockerfile" \in exists
      [] OTHER -> TRUE

\* A runTask that reports every task as done.
runTaskAlwaysOk(task, status) == TRUE

\* runTask(task), with the exit status of the command of the task.
runTask(task, status) == status = 0 \/ task.continueOnError

\* config.tasks.filter(shouldRunTask), as indices into config.tasks.
filterTasks(tasks, exists) ==
    SelectSeq([i \in 1..Len(tasks) |-> i], LAMBDA i : shouldRunTask(tasks[i], exists))

SetupTask(condition, continueOnError) ==
    [condition |-> condition, continueOnError |-> continueOnError]

SetupTasks == {SetupTask(c, e) : c \in {"always", "if-no-git", "if-docker"}, e \in BOOLEAN}

\* A generated project before its setup script runs.
InitSetup ==
    /\ templatesFs = [d \in {"core"} |-> BareDir]
    /\ trees = [d \in {"core"} |-> <<>>]
    /\ call = NoCall
    /\ templates = <<>>
    /\ config = NoConfig
    /\ pc = "done"
    /\ outDir = EmptyDir
    /\ allFiles = <<>>
    /\ written = {}
    /\ dry = NoDryRun
    /\ SyncIdle
    /\ HashIdle
    /\ RemoteIdle
    /\ \E json \in {"missing", "invalid", "ok"}, exists \in SUBSET {".git", "Dockerfile"} :
       \E tasks \in (IF json = "ok" THEN SeqsUpTo(SetupTasks, MaxTasks) ELSE {<<>>}) :
          setup = [NoSetup EXCEPT !.json = json, !.tasks = tasks, !.exists = exists]

\* main() up to the loop: read setup.json and filter the tasks.
SetupMain ==
    /\ setup.pc = "idle"
    /\ setup' = IF setup.json # "ok" THEN [setup EXCEPT !.pc = "exit1"]
                 ELSE LET tasks == filterTasks(setup.tasks, setup.exists)
                      IN  [setup EXCEPT !.filtered = tasks,
                                        !.pc = IF tasks = <<>> THEN "done" ELSE "loop"]
    /\ UNCHANGED <<templatesFs, trees, resolverVars, generatorVars, syncVars, hashVars,
                 remoteVars>>

\* One turn of the loop on a task whose condition no longer holds.
SetupSkip ==
    /\ setup.pc = "loop"
    /\ ~shouldRunTask(setup.tasks[setup.filtered[setup.next]], setup.exists)
    /\ setup' = [setup EXCEPT !.next = @ + 1,
                              !.pc = IF setup.next = Len(setup.filtered) THEN "done" ELSE "loop"]
    /\ UNCHANGED <<templatesFs, trees, resolverVars, generatorVars, syncVars, hashVars,
                 remoteVars>>

\* One turn of the loop on a task that runs: its command exits with `status`
\* and leaves `created` in the project root.
SetupRun(status, created) ==
    /\ setup.pc = "loop"
    /\ LET index == setup.filtered[setup.next]
           task  == setup.tasks[index]
       IN  /\ shouldRunTask(task, setup.exists)
           /\ setup' = [setup EXCEPT
                           !.started = Append(@, index),
                           !.statuses = Append(@, status),
                           !.exists = @ \cup created,
                           !.next = IF runTask(task, status) THEN @ + 1 ELSE @,
                           !.pc = IF ~runTask(task, status) THEN "exit1"
                                  ELSE IF setup.next = Len(setup.filtered) THEN "done"
                                  ELSE "loop"]
    /\ UNCHANGED <<templatesFs, trees, resolverVars, generatorVars, syncVars, hashVars,
                 remoteVars>>

NextSetup ==
    \/ SetupMain
    \/ SetupSkip
    \/ \E status \in {0, 1}, created \in {{}, {".git"}} : SetupRun(status, created)

SpecSetup == InitSetup /\ [][NextSetup]_vars

\* ---------------------------------------------------------------- remote templates
\* A RemoteTemplateRef; ref is <<>> when undefined.
RemoteTemplateRef(owner, repo, ref) == [owner |-> owner, repo |-> repo, ref |-> ref]

\* parseRemoteTemplate(input) on the template specs of the model: the github:
\* shorthand splits at '#' and at '/', anything else is an unsupported host.
parseRemoteTemplate(templateSpec) ==
    CASE templateSpec = "github:o/r"
           -> [ok |-> TRUE, value |-> RemoteTemplateRef("o", "r", <<>>)]
      [] templateSpec = "github:o/r#main"
           -> [ok |-> TRUE, value |-> RemoteTemplateRef("o", "r", <<"main">>)]
      [] templateSpec = "github:o/r#feature"
           -> [ok |-> TRUE, value |-> RemoteTemplateRef("o", "r", <<"feature">>)]
      [] templateSpec = "github:o/r#feature/x"
           -> [ok |-> TRUE, value |-> RemoteTemplateRef("o", "r", <<"feature/x">>)]
      [] OTHER -> [ok |-> FALSE, value |-> RemoteTemplateRef("", "", <<>>)]

\* The path segments path.join makes of a ref directory.
refSegments(refDir) ==
    CASE refDir = "feature/x" -> <<"feature", "x">>
      [] OTHER -> <<refDir>>

\* getTemplateCachePath(ref), relative to getCacheDir().
getTemplateCachePath(ref) ==
    <<ref.owner, ref.repo>> \o refSegments(IF ref.ref = <<>> THEN "default" ELSE ref.ref[1])

\* isCached(ref)
isCached(cache, ref) == getTemplateCachePath(ref) \in DOMAIN cache

\* path.dirname
Dirname(path) == SubSeq(path, 1, Len(path) - 1)

Within(path, dir) == Len(dir) <= Len(path) /\ SubSeq(path, 1, Len(dir)) = dir

\* fs.mkdirSync(dir, {recursive: true}): the directory and its missing parents.
mkdirRecursive(cache, dir) ==
    [p \in DOMAIN cache \cup {SubSeq(dir, 1, k) : k \in 0..Len(dir)} |->
        IF p \in DOMAIN cache THEN cache[p] ELSE [templateJson |-> FALSE]]

\* fs.rmSync(dir, {recursive: true, force: true})
rmRecursive(cache, dir) == [p \in {q \in DOMAIN cache : ~Within(q, dir)} |-> cache[p]]

\* git clone into dir: the work tree of the repository, with or without template.json.
gitClone(cache, dir, hasTemplate) ==
    [p \in DOMAIN cache \cup {dir} |->
        IF p = dir THEN [templateJson |-> hasTemplate] ELSE cache[p]]

\* cleanupEmptyDirs(dirPath)
cleanupEmptyDirs(cache, dir) ==
    IF /\ dir \in DOMAIN cache
       /\ ~cache[dir].templateJson
       /\ ~\E q \in DOMAIN cache : q # dir /\ Within(q, dir)
    THEN [p \in DOMAIN cache \ {dir} |-> cache[p]]
    ELSE cache

FetchOk(path, fromCache) ==
    [op |-> "fetch", ok |-> TRUE, type |-> "", path |-> path, fromCache |-> fromCache]

FetchErr(type) ==
    [op |-> "fetch", ok |-> FALSE, type |-> type, path |-> <<>>, fromCache |-> FALSE]

\* fetchRemoteTemplate(templateSpec, {force}), with the exit status of
\* git --version and of git clone, and whether the repository holds template.json.
fetchRemoteTemplate(cache, templateSpec, force, gitStatus, cloneStatus, hasTemplate) ==
    LET parseResult == parseRemoteTemplate(templateSpec)
        ref         == parseResult.value
        cachePath   == getTemplateCachePath(ref)
        prepared    == rmRecursive(mkdirRecursive(cache, Dirname(cachePath)), cachePath)
        cloned      == gitClone(prepared, cachePath, hasTemplate)
    IN  IF ~parseResult.ok THEN [cache |-> cache, last |-> FetchErr("unsupported_host")]
        ELSE IF ~force /\ isCached(cache, ref)
        THEN [cache |-> cache, last |-> FetchOk(cachePath, TRUE)]
        ELSE IF gitStatus # 0 THEN [cache |-> cache, last |-> FetchErr("git_not_found")]
        ELSE IF cloneStatus # 0 THEN [cache |-> prepared, last |-> FetchErr("clone_failed")]
        ELSE IF ~hasTemplate
        THEN [cache |-> rmRecursive(cloned, cachePath), last |-> FetchErr("invalid_template")]
        ELSE [cache |-> cloned, last |-> FetchOk(cachePath, FALSE)]

\* clearCache(ref?); ref is <<>> when absent.
clearCache(cache, ref) ==
    IF <<>> \notin DOMAIN cache THEN cache
    ELSE IF ref # <<>>
    THEN LET cachePath == getTemplateCachePath(ref[1])
         IN  IF cachePath \notin DOMAIN cache THEN cache
             ELSE cleanupEmptyDirs(
                      cleanupEmptyDirs(rmRecursive(cache, cachePath), Dirname(cachePath)),
                      Dirname(Dirname(cachePath)))
    ELSE rmRecursive(cache, <<>>)

TemplateSpecs ==
    {"github:o/r", "github:o/r#main", "github:o/r#feature", "github:o/r#feature/x", "gitlab:o/r"}

\* A machine with an empty template cache.
InitRemote ==
    /\ templatesFs = [d \in {"core"} |-> BareDir]
    /\ trees = [d \in {"core"} |-> <<>>]
    /\ call = NoCall
    /\ templates = <<>>
    /\ GeneratorIdle
    /\ SyncIdle
    /\ OtherIdle

FetchRemoteTemplate(templateSpec, force, gitStatus, cloneStatus, hasTemplate) ==
    /\ remote' = fetchRemoteTemplate(remote.cache, templateSpec, force, gitStatus, cloneStatus,
                                      hasTemplate)
    /\ UNCHANGED <<templatesFs, trees, resolverVars, generatorVars, syncVars, hashVars,
                 setupVars>>

ClearCache(ref) ==
    /\ remote' = [cache |-> clearCache(remote.cache, ref),
                  last |-> [NoRemoteCall EXCEPT !.op = "clear", !.ok = TRUE]]
    /\ UNCHANGED <<templatesFs, trees, resolverVars, generatorVars, syncVars, hashVars,
                 setupVars>>

NextRemote ==
    \/ \E templateSpec \in TemplateSpecs, force \in BOOLEAN, gitStatus \in {0, 1},
          cloneStatus \in {0, 128}, hasTemplate \in BOOLEAN :
          FetchRemoteTemplate(templateSpec, force, gitStatus, cloneStatus, hasTemplate)
    \/ \E ref \in {<<>>} \cup {<<parseRemoteTemplate(t).value>> :
                                  t \in {u \in TemplateSpecs : parseRemoteTemplate(u).ok}} :
          ClearCache(ref)

SpecRemote == InitRemote /\ [][NextRemote]_vars

\* ---------------------------------------------------------------- properties
Names(list) == [i \in 1..Len(list) |-> list[i].manifest.name]

NoRepeats(seq) == \A i, j \in 1..Len(seq) : i # j => seq[i] # seq[j]

\* C1: the list returned by resolveTemplates contains no two bundles with the
\* same manifest name, for every archetype id, addon list and catalog.
C1_NoDuplicateNames == call.done => NoRepeats(Names(templates))

\* C6: index 0 of every non-empty list returned by resolveTemplates is the
\* bundle named core, whatever the archetype id, addon list and catalog.
C6_CoreFirst == (call.done /\ templates # <<>>) => templates[1].manifest.name = "core"

\* The archetype the last call selected (<<>> when the id matches none).
CalledArchetype == findByName(discoverArchetypes(templatesFs), call.archetypeName)

Range(seq) == {seq[i] : i \in 1..Len(seq)}

IsArchetypeBundle(t) == CalledArchetype # <<>> /\ t = CalledArchetype[1]

IsDependencyBundle(t) ==
    CalledArchetype # <<>> /\ t.path \in Range(CalledArchetype[1].manifest.dependencies)

IsSelectedAddonBundle(t) ==
    t \in Range(discoverAddons(templatesFs)) /\ t.manifest.name \in Range(call.selectedAddons)

FirstIndex(seq, x) == CHOOSE i \in 1..Len(seq) : seq[i] = x /\ \A j \in 1..(i - 1) : seq[j] # x

\* C7: every returned list keeps the order core, dependencies (in the order of
\* the dependencies array), archetype, addons: no dependency bundle follows the
\* archetype bundle and no selected addon bundle precedes it.
C7_SegmentOrder ==
    call.done =>
        \A i, j \in 1..Len(templates) :
            i < j =>
                /\ ~(IsArchetypeBundle(templates[i]) /\ IsDependencyBundle(templates[j]))
                /\ ~(IsSelectedAddonBundle(templates[i]) /\ IsArchetypeBundle(templates[j]))
                /\ templates[j].path # "core"
                /\ (IsDependencyBundle(templates[i]) /\ IsDependencyBundle(templates[j])
                    /\ IsArchetypeBundle(templates[j]) = FALSE
                    /\ \E k \in (j + 1)..Len(templates) : IsArchetypeBundle(templates[k]))
                   => FirstIndex(CalledArchetype[1].manifest.dependencies, templates[i].path)
                      <= FirstIndex(CalledArchetype[1].manifest.dependencies, templates[j].path)

\* C8: when the archetype id matches no archetype of the catalog,
\* resolveTemplates returns the list [core] and nothing else, for every list of
\* selected addon ids.
C8_UnknownArchetypeCoreOnly ==
    (call.done /\ CalledArchetype = <<>>) =>
        (Len(templates) = 1 /\ templates[1].manifest.name = "core")

\* ---------------------------------------------------------------- composition
\* The run takes the plain-template path (the archetype has no baseCommand).
OnPlainPath ==
    LET manifest == loadTemplateManifest(templatesFs, config.archetype)
    IN  ~(manifest # <<>> /\ manifest[1].baseCommand)

\* The resolved bundle list [B1..Bn] of the run and the rendering of bundle i.
Resolved == resolveTemplates(templatesFs, config.archetype, config.addons)

Rendering(i) ==
    processTemplateDirectory(TreeOf(trees, Resolved[i]), <<>>, createTemplateContext(config))

Definers(path) == {i \in 1..Len(Resolved) : MapHas(Rendering(i), path)}

Last(S) == CHOOSE i \in S : \A j \in S : j <= i

DefinedPaths == UNION {MapKeys(Rendering(i)) : i \in 1..Len(Resolved)}

\* C2: override law. With resolved bundles [B1..Bn], the composed file set holds
\* exactly the paths some bundle defines (the descriptor template.json aside),
\* each with the rendering of the last bundle that defines it, and writeTemplates
\* puts exactly that content into the output directory.
C2_OverrideLaw ==
    (pc \in {"write", "setup"} /\ OnPlainPath) =>
        /\ MapKeys(allFiles) = DefinedPaths \ {TemplateJson}
        /\ \A path \in MapKeys(allFiles) :
              MapGet(allFiles, path) = MapGet(Rendering(Last(Definers(path))), path)
        /\ pc = "setup" =>
              /\ DOMAIN outDir = DefinedPaths \ {TemplateJson}
              /\ \A path \in DOMAIN outDir :
                    outDir[path] = MapGet(Rendering(Last(Definers(path))), path)

\* A written composition where one path has two bundles with different
\* renderings and another path has a single bundle.
C2_Witness ==
    /\ pc = "setup" /\ OnPlainPath
    /\ \E path \in DOMAIN outDir :
          \E i, j \in Definers(path) :
              i < j /\ MapGet(Rendering(i), path) # MapGet(Rendering(j), path)
    /\ \E path \in DOMAIN outDir : Cardinality(Definers(path)) = 1

DryRunPaths == {dry.result.files[i].path : i \in 1..Len(dry.result.files)}

\* C9: dry run and real generation do not drift. For every configuration the set
\* of relative paths reported by generateProjectDryRun equals the set of paths
\* generateProject writes from bundles and overlays, on the plain-template path
\* and on the baseCommand path; the writes from bundles and overlays are over
\* when the run comes to the setup config.
C9_DryRunMatchesGeneration ==
    (pc \in {"setup", "setupFailed", "git", "done"} /\ dry.done /\ dry.config = config) =>
        DryRunPaths = written

\* C10: every successful generateProject run leaves a persisted manifest at
\* .bakery/manifest.json in the output directory, on the plain-template path
\* and on the baseCommand path.
C10_ManifestPersisted == pc = "done" => ManifestJson \in DOMAIN outDir

\* ---------------------------------------------------------------- change records
RecordsOf(path) == {i \in 1..Len(changes.records) : changes.records[i].path = path}

ManifestPaths == DOMAIN projectManifest.files

DiskPaths == DOMAIN outDir

\* C3: partition completeness. detectChanges returns exactly one record for
\* each path of (manifest.files keys) union (files on disk) and none for any
\* other path.
C3_PartitionComplete ==
    changes.done =>
        /\ \A path \in ManifestPaths \cup DiskPaths : Cardinality(RecordsOf(path)) = 1
        /\ \A i \in 1..Len(changes.records) :
              changes.records[i].path \in ManifestPaths \cup DiskPaths

\* A detection over a tree and a manifest that share a path and each have a
\* path the other lacks.
C3_Witness ==
    /\ changes.done
    /\ ManifestPaths \ DiskPaths # {}
    /\ DiskPaths \ ManifestPaths # {}
    /\ ManifestPaths \cap DiskPaths # {}

\* The type presence and hash equality give a path.
ExpectedType(path) ==
    IF path \in ManifestPaths
    THEN IF path \in DiskPaths
         THEN IF hashContent(outDir[path]) # projectManifest.files[path].hash
              THEN "modified" ELSE "unchanged"
         ELSE "removed"
    ELSE "added"

\* C4: every path is classified by presence and hash equality only: in the
\* manifest and on disk with a different recomputed hash is modified, with the
\* same hash unchanged; in the manifest but not on disk is removed; on disk but
\* not in the manifest is added.
C4_Classification ==
    changes.done =>
        \A i \in 1..Len(changes.records) :
            changes.records[i].type = ExpectedType(changes.records[i].path)

\* A detection whose result holds all four types.
C4_Witness ==
    /\ changes.done
    /\ \A t \in {"added", "removed", "modified", "unchanged"} :
          \E i \in 1..Len(changes.records) : changes.records[i].type = t

TreeFiles == DOMAIN outDir

\* C11: the keys of the manifest createManifest builds are exactly the relative
\* paths of the files under the project root that are not below .git,
\* node_modules or .bakery: none is left out and no path absent from the disk
\* is included.
C11_ManifestKeys ==
    built =>
        DOMAIN projectManifest.files =
            {p \in TreeFiles : p[1] \notin {".git", "node_modules", ".bakery"}}

\* A manifest built from a tree with a file in an excluded directory, the
\* tool's own state among them, and two files that are recorded.
C11_Witness ==
    /\ built
    /\ \E p \in TreeFiles : p[1] = ".bakery"
    /\ \E p \in TreeFiles : p[1] \in {".git", "node_modules"}
    /\ Cardinality(DOMAIN projectManifest.files) >= 2

\* ---------------------------------------------------------------- descriptors
\* A template descriptor file, by name: template.json in any directory.
IsDescriptorFile(path) == path # <<>> /\ path[Len(path)] = "template.json"

\* C12: descriptor files never appear in generated output, whatever the bundles
\* contain: neither the composed file set, nor the set of files generation
\* writes from bundles and overlays, nor the file list of a dry run holds a
\* file named template.json.
C12_NoDescriptorInOutput ==
    \A path \in MapKeys(allFiles) \cup written \cup DryRunPaths : ~IsDescriptorFile(path)

\* ---------------------------------------------------------------- addon segment
AddonNames == {t.manifest.name : t \in Range(discoverAddons(templatesFs))}

\* The selected ids that name an addon of the catalog, in the caller's order.
MatchedAddons == SelectSeq(call.selectedAddons, LAMBDA id : id \in AddonNames)

\* C14: the addon segment of the returned list is exactly the selected addon ids
\* that match an addon name of the catalog, in the caller-supplied order: the
\* list ends with one addon bundle per matching id, in that order, and what
\* precedes them is the list a call without addons returns; an id that matches
\* no addon contributes nothing.
C14_AddonSegment ==
    call.done =>
        LET k == Len(MatchedAddons)
            n == Len(templates)
        IN  /\ n >= k
            /\ Names(SubSeq(templates, n - k + 1, n)) = MatchedAddons
            /\ \A i \in (n - k + 1)..n : templates[i] \in Range(discoverAddons(templatesFs))
            /\ SubSeq(templates, 1, n - k)
                 = resolveTemplates(templatesFs, call.archetypeName, <<>>)

\* A call whose first selected id matches no addon and whose second does, for an
\* archetype the catalog has.
C14_Witness ==
    /\ call.done
    /\ CalledArchetype # <<>>
    /\ Len(call.selectedAddons) = 2
    /\ call.selectedAddons[1] \notin AddonNames
    /\ call.selectedAddons[2] \in AddonNames

\* ---------------------------------------------------------------- discovery
Loads(d) == templatesFs[d].kind = "ok"

DiscoveredPaths(list) == {t.path : t \in Range(list)}

\* C16: catalog discovery is best-effort. loadTemplateManifest returns null for
\* a directory whose template.json is missing, is not JSON or fails the schema;
\* discoverArchetypes and discoverAddons return exactly the templates whose
\* descriptor loads, and a resolveTemplates call finds the archetype and the
\* addons it names among them, whatever the state of the other templates.
C16_BestEffortDiscovery ==
    call.done =>
        /\ \A d \in DOMAIN templatesFs : ~Loads(d) => loadTemplateManifest(templatesFs, d) = <<>>
        /\ DiscoveredPaths(discoverArchetypes(templatesFs))
             = {d \in Range(archetypeDirs) \cap DOMAIN templatesFs : Loads(d)}
        /\ DiscoveredPaths(discoverAddons(templatesFs))
             = {d \in Range(addonEntries) \cap DOMAIN templatesFs : Loads(d)}
        /\ \A d \in Range(archetypeDirs) \cap DOMAIN templatesFs :
              (Loads(d) /\ templatesFs[d].manifest.name = call.archetypeName)
                 => \E i \in 1..Len(templates) : templates[i].path = d
        /\ \A d \in Range(addonEntries) \cap DOMAIN templatesFs :
              (Loads(d) /\ templatesFs[d].manifest.name \in Range(call.selectedAddons))
                 => \E i \in 1..Len(templates) : templates[i].path = d

\* A call for an archetype and an addon that load, each listed after a template
\* whose descriptor does not: cli without template.json, ci with unparsable JSON.
C16_Witness ==
    /\ call.done
    /\ templatesFs["cli"].kind = "bare" /\ Loads("api") /\ call.archetypeName = "api"
    /\ templatesFs["addons/ci"].kind = "unparsable" /\ Loads("addons/docker")
    /\ "docker" \in Range(call.selectedAddons)
    /\ \E i, j \in 1..Len(templates) : templates[i].path = "api" /\ templates[j].path = "addons/docker"

\* ---------------------------------------------------------------- baseline
\* C15: every resolution has a baseline bundle. The returned list always holds
\* a bundle named core, and when the core directory has no loadable descriptor
\* that bundle carries the synthesized descriptor: name core, empty collections.
C15_BaselineBundle ==
    call.done =>
        /\ \E i \in 1..Len(templates) : templates[i].manifest.name = "core"
        /\ ~Loads("core") =>
              \E i \in 1..Len(templates) :
                  templates[i] = LoadedTemplate(SynthCoreManifest, "core")

\* ---------------------------------------------------------------- overlays
\* The rendering of the overlays directory of the run's archetype.
OverlayRendering ==
    processTemplateDirectory(trees[config.archetype], Overlays, createTemplateContext(config))

C18_AllRenderedBeforeWrite == pc = "failed" => written = {}

\* ---------------------------------------------------------------- manifest round trip
\* C19: a manifest persisted with saveManifest and read back with loadManifest
\* from the same project root comes back with the same bakeryVersion, archetype,
\* addon list (same order) and file entries (same paths, hashes and managed
\* flags).
C19_RoundTrip ==
    (loaded.done /\ saved # <<>>) =>
        /\ loaded.ok
        /\ loaded.value.bakeryVersion = saved[1].bakeryVersion
        /\ loaded.value.archetype = saved[1].archetype
        /\ loaded.value.addons = saved[1].addons
        /\ DOMAIN loaded.value.files = DOMAIN saved[1].files
        /\ \A path \in DOMAIN saved[1].files :
              /\ loaded.value.files[path].hash = saved[1].files[path].hash
              /\ loaded.value.files[path].managed = saved[1].files[path].managed

\* A load after the save of a manifest with two addons, a managed entry and an
\* unmanaged entry whose path has two segments.
C19_Witness ==
    /\ loaded.done /\ saved # <<>>
    /\ Len(saved[1].addons) = 2
    /\ \E p, q \in DOMAIN saved[1].files :
          saved[1].files[p].managed /\ ~saved[1].files[q].managed /\ Len(q) = 2

\* C20: loadManifest on a project without a persisted manifest returns the error
\* 'Manifest not found', and an error too for a manifest file that is not JSON
\* or fails the schema; it never answers ok without a manifest file, so a
\* missing manifest is not turned into an empty one against which every file
\* would be added.
C20_LoadManifestErrors ==
    loaded.done =>
        /\ ManifestJson \notin DOMAIN outDir =>
              (~loaded.ok /\ loaded.error = "Manifest not found")
        /\ (ManifestJson \in DOMAIN outDir
            /\ outDir[ManifestJson] \in {UnparsableText, <<>>, OtherShapeText}) => ~loaded.ok
        /\ loaded.ok => ManifestJson \in DOMAIN outDir

\* A load in a project that has files and no manifest file.
C20_Witness ==
    /\ loaded.done
    /\ ManifestJson \notin DOMAIN outDir
    /\ \E p \in DOMAIN outDir : p[1] \notin ExcludedDirs

\* ---------------------------------------------------------------- dry run
\* C21: generateProjectDryRun leaves the filesystem unchanged. A step that
\* returns a dry-run result changes neither the output directory nor the set of
\* files written into it, for every configuration, an archetype with a
\* baseCommand included: its command is listed, not run.
C21_DryRunWritesNothing ==
    [][(dry'.done /\ dry' # dry) => (outDir' = outDir /\ written' = written)]_vars

\* A dry run of an archetype with a baseCommand, before any generation: the
\* command is listed and the output directory is empty.
C21_Witness ==
    /\ dry.done
    /\ dry.result.commands # <<>>
    /\ dry.result.files # <<>>
    /\ pc = "idle" /\ outDir = EmptyDir

\* C22: in every result of generateProjectDryRun totalSize is the sum of the
\* size fields of the entries of files, also when an overlay file replaces an
\* entry already listed for the same path.
C22_TotalSizeIsSum == dry.done => dry.result.totalSize = SumSizes(dry.result.files, 1)

\* A dry run where an overlay file replaced a listed entry of another size.
C22_Witness ==
    /\ dry.done
    /\ overlaysExist(templatesFs, trees, dry.config.archetype)
    /\ LET context  == createTemplateContext(dry.config)
           overlay  == processTemplateDirectory(trees[dry.config.archetype], Overlays, context)
           bundles  == dryTemplates([files |-> <<>>, totalSize |-> 0], trees,
                          resolveTemplates(templatesFs, dry.config.archetype, dry.config.addons),
                          context, 1)
       IN  \E i \in 1..Len(overlay) :
              LET at == FindIndex(bundles.files, overlay[i].path)
              IN  at >= 1 /\ bundles.files[at].size # ByteLength(overlay[i].content)

\* The rendering that wins the merge of a dry run for a path: the overlay's when
\* the overlays define the path, else the last defining bundle's.
DryWinner(path) ==
    LET cfg     == dry.config
        context == createTemplateContext(cfg)
        list    == resolveTemplates(templatesFs, cfg.archetype, cfg.addons)
        overlay == IF overlaysExist(templatesFs, trees, cfg.archetype)
                   THEN processTemplateDirectory(trees[cfg.archetype], Overlays, context)
                   ELSE <<>>
        render(i) == processTemplateDirectory(TreeOf(trees, list[i]), <<>>, context)
        definers == {i \in 1..Len(list) : MapHas(render(i), path)}
    IN  IF MapHas(overlay, path) THEN MapGet(overlay, path)
        ELSE MapGet(render(Last(definers)), path)

\* C29: the files list of a dry-run result holds each relative path at most
\* once, and the size listed for a path is the byte length of the rendering
\* that wins the merge for that path.
C29_DryRunUniquePaths ==
    dry.done =>
        /\ \A i, j \in 1..Len(dry.result.files) :
              i # j => dry.result.files[i].path # dry.result.files[j].path
        /\ \A i \in 1..Len(dry.result.files) :
              dry.result.files[i].size = ByteLength(DryWinner(dry.result.files[i].path))

\* ---------------------------------------------------------------- base command
\* C26: when the base command exits with a non-zero status generateProject
\* throws and no later step runs: the output directory holds what the command
\* itself left and nothing else (no post-processing, no template or overlay
\* file, no setup config, no git repository of initGitRepo), and nothing is
\* written once the run has failed.
C26_BaseCommandFailureStops ==
    [][/\ (pc = "baseCommand" /\ pc' = "failed") =>
            /\ outDir' \in ExternalTrees \cup {EmptyDir}
            /\ written' = written
       /\ pc = "failed" => (pc' = "failed" /\ outDir' = outDir /\ written' = written)]_vars

\* A run of an archetype with a baseCommand and a postProcess that failed at
\* the command: the file post-processing removes is still what the command
\* wrote, and no setup config is there.
C26_Witness ==
    /\ pc = "failed"
    /\ ~OnPlainPath
    /\ loadTemplateManifest(templatesFs, config.archetype)[1].postProcess # <<>>
    /\ <<"x.txt">> \in DOMAIN outDir /\ outDir[<<"x.txt">>] = <<"ext-x">>
    /\ SetupJson \notin DOMAIN outDir
    /\ written = {}

\* ---------------------------------------------------------------- rendering
\* A file name with every project-name token replaced.
ExpectedName(name) ==
    CASE name = "{{projectName}}" -> ProjectName
      [] name = "{{projectNamePascal}}" -> "MyApp"
      [] name = "{{projectName}}.ts" -> ProjectName \o ".ts"
      [] name = "{{projectNamePascal}}.ts" -> "MyApp" \o ".ts"
      [] OTHER -> name

\* The key of a bundle file in the rendering: its relative path (the .ejs
\* suffix aside) with the project-name tokens replaced.
ExpectedKey(path) == [i \in 1..Len(path) |-> ExpectedName(path[i])]

\* C27: rendering one bundle yields one map entry per regular file of the
\* bundle tree, keyed by the file's relative path without the .ejs suffix and
\* with {{projectName}} and {{projectNamePascal}} replaced by the project name
\* and its Pascal-case form; a file that is not a template keeps its content
\* unchanged.
C27_RenderPerFile ==
    pc # "idle" =>
        \A d \in DOMAIN trees :
            ~renderThrows(trees[d], <<>>) =>
                LET context  == createTemplateContext(config)
                    rendered == processTemplateDirectory(trees[d], <<>>, context)
                IN  /\ Len(rendered) = Len(trees[d])
                    /\ \A i \in 1..Len(trees[d]) :
                          LET file == trees[d][i]
                              key  == ExpectedKey(file.path)
                          IN  /\ MapHas(rendered, key)
                              /\ ~file.ejs => MapGet(rendered, key) = file.content

\* ---------------------------------------------------------------- hashing
Unhashable(path) == path \notin DOMAIN hashDisk \/ ~hashDisk[path].readable

\* C23: hashFiles is all-or-nothing: it returns an error if a listed file is
\* missing or unreadable, and otherwise a map whose keys are exactly the given
\* relative paths, each mapped to the hash of the content of its file; no
\* partial map is returned. hashFile reports a missing file as an error value
\* that carries the path of the file.
C23_HashFilesAllOrNothing ==
    /\ hashed.op = "hashFiles" =>
          IF \E i \in 1..Len(hashed.paths) : Unhashable(hashed.paths[i])
          THEN ~hashed.ok /\ hashed.map = <<>>
          ELSE /\ hashed.ok
               /\ MapKeys(hashed.map) = Range(hashed.paths)
               /\ Len(hashed.map) = Cardinality(Range(hashed.paths))
               /\ \A key \in MapKeys(hashed.map) :
                     MapGet(hashed.map, key) = sha256Hex(hashDisk[key].bytes)
    /\ (hashed.op = "hashFile" /\ hashed.paths[1] \notin DOMAIN hashDisk) =>
          /\ ~hashed.ok
          /\ hashed.message = "File not found"
          /\ hashed.filepath = hashed.paths[1]

\* A hashFiles call over two paths, the first of a readable file and the
\* second of a missing or unreadable one.
C23_Witness ==
    /\ hashed.op = "hashFiles"
    /\ Len(hashed.paths) = 2
    /\ ~Unhashable(hashed.paths[1])
    /\ Unhashable(hashed.paths[2])

\* ---------------------------------------------------------------- setup runner
\* The started task at position k failed and does not continue on error.
FailedHard(k) ==
    setup.statuses[k] # 0 /\ ~setup.tasks[setup.started[k]].continueOnError

\* C28: the setup runner starts the tasks of setup.json in their listed order
\* and stops at the first task that fails with continueOnError false: it exits
\* with status 1 and no later task is started; a failing task with
\* continueOnError true does not end the run.
C28_SetupStopsAtFirstFailure ==
    /\ \A j, k \in 1..Len(setup.started) : j < k => setup.started[j] < setup.started[k]
    /\ \A k \in 1..Len(setup.started) :
          FailedHard(k) => (k = Len(setup.started) /\ setup.pc = "exit1")
    /\ (setup.pc = "exit1" /\ setup.json = "ok") =>
          (setup.started # <<>> /\ FailedHard(Len(setup.started)))

\* A run that went on after a failing task with continueOnError true and ended
\* with status 1 at a later failing task, before the last task of setup.json.
C28_Witness ==
    /\ setup.pc = "exit1"
    /\ Len(setup.started) = 2
    /\ setup.statuses = <<1, 1>>
    /\ setup.started[2] < Len(setup.tasks)

\* ---------------------------------------------------------------- remote templates
\* C30: after any sequence of fetchRemoteTemplate and clearCache calls, every
\* successful fetchRemoteTemplate result, served from the cache or freshly
\* cloned, names a directory that contains template.json.
C30_FetchedHasTemplateJson ==
    (remote.last.op = "fetch" /\ remote.last.ok) =>
        /\ remote.last.path \in DOMAIN remote.cache
        /\ remote.cache[remote.last.path].templateJson

====
